---- MODULE Spec2Model ----
(***************************************************************************)
(* A model of the fitbit client (src/fitbit.go): the request builder       *)
(* Client.NewRequest, the request executor Client.Do and the two resource  *)
(* accessors ActivitySummaryForDay and UserProfile.                        *)
(*                                                                         *)
(* Text is a sequence of tokens.  A token is one character ("/", " ", "?", *)
(* "#", "%"), one well-formed percent escape ("%2F", "%20", "%23"), one    *)
(* scheme-and-authority prefix ("https://api.fitbit.com") or a run of      *)
(* unreserved characters ("x", "user", "2013-06-27", ".json").  A "%"      *)
(* token followed by a token that opens with two hex digits is the same    *)
(* text as the escape and the rest of that token ("%", "2013-06-27" is     *)
(* "%20", "13-06-27"); Canon writes a text that way, and any other "%" is  *)
(* a percent sign that no two hex digits follow.                           *)
(***************************************************************************)
EXTENDS Integers, Sequences, FiniteSets, TLC

\* ------------------------------------------------------------------ bounds
MaxPathLen == 3
MaxDayLen == 2

\* --------------------------------------------------------------- sequences
\* F applied to the value of v, which is computed once
Bind(v, F(_)) == CHOOSE r \in {F(x) : x \in {v}} : TRUE

RECURSIVE IndexOfFrom(_, _, _)
IndexOfFrom(s, t, i) ==
    IF i > Len(s) THEN 0
    ELSE IF s[i] = t THEN i
    ELSE IndexOfFrom(s, t, i + 1)

\* strings.Index: the position of the first t in s, 0 when there is none
IndexOf(s, t) == IndexOfFrom(s, t, 1)

Contains(s, t) == IndexOf(s, t) # 0

Count(s, t) == Cardinality({i \in 1..Len(s) : s[i] = t})

\* strings.Cut: <<before, after>> the first t; <<s, <<>>>> when there is none
Cut(s, t) ==
    Bind(IndexOf(s, t), LAMBDA i :
        IF i = 0 THEN <<s, <<>>>>
        ELSE <<SubSeq(s, 1, i - 1), SubSeq(s, i + 1, Len(s))>>)

HasPrefix(s, p) == Len(s) >= Len(p) /\ SubSeq(s, 1, Len(p)) = p

SeqsUpTo(S, n) == UNION {[1..k -> S] : k \in 0..n}

\* ------------------------------------------------------------------ tokens
Origins == {"https://api.fitbit.com", "http://stub"}
Escapes == {"%2F", "%20", "%23", "%3F", "%25"}
Special == {"/", " ", "?", "#", "%"} \cup Escapes \cup Origins

IsPlain(t) == t \notin Special

\* what a well-formed percent escape decodes to
Unhex(t) ==
    CASE t = "%2F" -> "/"
      [] t = "%20" -> " "
      [] t = "%23" -> "#"
      [] t = "%3F" -> "?"
      [] t = "%25" -> "%"
      [] OTHER -> t

\* the percent escape of a character
Hex(t) ==
    CASE t = " " -> "%20"
      [] t = "#" -> "%23"
      [] t = "?" -> "%3F"
      [] t = "%" -> "%25"
      [] OTHER -> t

\* net/url shouldEscape, in the modes encodePath and encodeFragment
ShouldEscape(t, mode) ==
    CASE t = " " -> TRUE
      [] t = "#" -> TRUE
      [] t = "%" -> TRUE
      [] t = "?" -> mode = "path"
      [] OTHER -> FALSE

\* the tokens that open with two hex digits, and what "%" before one reads
\* as: the escape those digits make, then the rest of the token
HexLed == {"2013-06-27"}
SplitHex(t) == IF t = "2013-06-27" THEN <<"%20", "13-06-27">> ELSE <<"%", t>>

\* the text s with every percent sign that two hex digits follow written as
\* the escape it is
Canon(s) ==
    [i \in 1..Len(s) |->
        IF s[i] = "%" /\ i < Len(s) /\ s[i + 1] \in HexLed
        THEN SplitHex(s[i + 1])[1]
        ELSE IF i > 1 /\ s[i - 1] = "%" /\ s[i] \in HexLed
        THEN SplitHex(s[i])[2]
        ELSE s[i]]

\* net/url unescape: fails on a percent sign that no two hex digits follow
UnescapeFails(s) == Contains(Canon(s), "%")

Unescape(s) == Bind(Canon(s), LAMBDA c : [i \in 1..Len(c) |-> Unhex(c[i])])

\* net/url escape
Escape(s, mode) ==
    [i \in 1..Len(s) |-> IF ShouldEscape(s[i], mode) THEN Hex(s[i]) ELSE s[i]]

\* net/url validEncoded: percent signs are accepted, the rest as shouldEscape
ValidEncoded(s, mode) ==
    \A i \in 1..Len(s) :
        s[i] \in Escapes \/ s[i] = "%" \/ ~ShouldEscape(s[i], mode)

\* --------------------------------------------------------------------- URL
\* url.URL, with the scheme and authority of an absolute address held in Origin
NoURL(msg) ==
    [err |-> msg, Origin |-> "", Host |-> <<>>, Path |-> <<>>, RawPath |-> <<>>,
     ForceQuery |-> FALSE, RawQuery |-> <<>>, Fragment |-> <<>>,
     RawFragment |-> <<>>]

\* URL.setPath / URL.setFragment: the raw form is kept only when it differs
\* from the default escaping of the decoded form
RawHint(raw, mode) ==
    IF Escape(Unescape(raw), mode) = raw THEN <<>> ELSE raw

\* getScheme and the authority of an absolute address: <<origin, rest>>
SplitOrigin(u) ==
    IF u # <<>> /\ Head(u) \in Origins THEN <<Head(u), Tail(u)>> ELSE <<"", u>>

\* the query of url.parse: a lone trailing "?" forces an empty query,
\* otherwise the text is cut at the first "?"
SplitQuery(rest) ==
    IF rest # <<>> /\ rest[Len(rest)] = "?" /\ Count(rest, "?") = 1
    THEN [force |-> TRUE, rest |-> SubSeq(rest, 1, Len(rest) - 1), query |-> <<>>]
    ELSE Bind(Cut(rest, "?"), LAMBDA c :
            [force |-> FALSE, rest |-> c[1], query |-> c[2]])

\* the authority of a relative reference: "//host" followed by "/" or nothing
\* (three slashes open a path)
SplitAuthority(origin, rest) ==
    IF origin = "" /\ HasPrefix(rest, <<"/", "/">>)
                   /\ ~HasPrefix(rest, <<"/", "/", "/">>)
    THEN Bind(SubSeq(rest, 3, Len(rest)), LAMBDA auth :
            Bind(IndexOf(auth, "/"), LAMBDA slash :
                IF slash = 0 THEN [host |-> auth, rest |-> <<>>]
                ELSE [host |-> SubSeq(auth, 1, slash - 1),
                      rest |-> SubSeq(auth, slash, Len(auth))]))
    ELSE [host |-> <<>>, rest |-> rest]

\* url.Parse
Parse(rawURL) ==
    Bind(Cut(Canon(rawURL), "#"), LAMBDA cutF :
      Bind(SplitOrigin(cutF[1]), LAMBDA so :
        Bind(SplitQuery(so[2]), LAMBDA q :
          Bind(SplitAuthority(so[1], q.rest), LAMBDA a :
            IF \E i \in 1..Len(a.host) : ~IsPlain(a.host[i])
            THEN NoURL("parse: invalid host")
            ELSE IF UnescapeFails(a.rest)
            THEN NoURL("parse: invalid URL escape")
            ELSE IF UnescapeFails(cutF[2])
            THEN NoURL("parse: invalid URL escape in fragment")
            ELSE [err |-> "", Origin |-> so[1], Host |-> a.host,
                  Path |-> Unescape(a.rest),
                  RawPath |-> RawHint(a.rest, "path"),
                  ForceQuery |-> q.force, RawQuery |-> q.query,
                  Fragment |-> Unescape(cutF[2]),
                  RawFragment |-> RawHint(cutF[2], "fragment")]))))

\* URL.EscapedPath / URL.EscapedFragment
Escaped(decoded, raw, mode) ==
    IF raw # <<>> /\ ValidEncoded(raw, mode) /\ Unescape(raw) = decoded
    THEN raw
    ELSE Escape(decoded, mode)

\* URL.String
String(u) ==
    Bind(Escaped(u.Path, u.RawPath, "path"), LAMBDA path :
      Bind(IF u.Origin # "" THEN <<u.Origin>>
           ELSE IF u.Host # <<>> THEN <<"/", "/">> \o u.Host
           ELSE <<>>, LAMBDA authority :
        authority
          \o (IF path # <<>> /\ path[1] # "/" /\ authority # <<>>
              THEN <<"/">> ELSE <<>>)
          \o path
          \o (IF u.ForceQuery \/ u.RawQuery # <<>>
              THEN <<"?">> \o u.RawQuery ELSE <<>>)
          \o (IF u.Fragment # <<>>
              THEN <<"#">> \o Escaped(u.Fragment, u.RawFragment, "fragment")
              ELSE <<>>)))

\* BASE_URL and baseURL
BASE_URL == <<"https://api.fitbit.com", "/", "1">>
baseURL == Parse(BASE_URL)
USER_AGENT == "go-fitbit-api:v0.0.1"

\* -------------------------------------------------------------------- JSON
\* A JSON value: k is its kind, n its number, s its string, m its members
\* (<<key, value>> pairs, in document order).
JNull == [k |-> "null", n |-> 0, s |-> "", m |-> <<>>]
JNum(n) == [k |-> "num", n |-> n, s |-> "", m |-> <<>>]
JStr(s) == [k |-> "str", n |-> 0, s |-> s, m |-> <<>>]
JArr == [k |-> "arr", n |-> 0, s |-> "", m |-> <<>>]
JObj(m) == [k |-> "obj", n |-> 0, s |-> "", m |-> m]
\* a Go value encoding/json has no encoding for (a channel, a function)
GoChan == [k |-> "chan", n |-> 0, s |-> "", m |-> <<>>]
\* the nil interface value
Nil == [k |-> "nil", n |-> 0, s |-> "", m |-> <<>>]

\* the error value: class "" is the nil error
NoErr == [class |-> "", msg |-> ""]
Err(class, msg) == [class |-> class, msg |-> msg]

\* json.NewEncoder(buf).Encode(body): the text written to buf, or the failure
Encode(body) ==
    CASE body.k = "num" -> [err |-> "", text |-> <<ToString(body.n), "\n">>]
      [] body.k = "str" -> [err |-> "", text |-> <<"\"" \o body.s \o "\"", "\n">>]
      [] body.k = "null" -> [err |-> "", text |-> <<"null", "\n">>]
      [] OTHER -> [err |-> "json: unsupported type", text |-> <<>>]

\* The record types, by Go field name: the fields left out decode exactly as
\* the ones kept.  (ActivitySummary, Goals, Summary, UserProfile, User)
ActivitySummary ==
    [Goals |-> [ActiveMinutes |-> "int", Steps |-> "int"],
     Summary |-> [Steps |-> "int"]]
UserProfile == [User |-> [FullName |-> "string", Age |-> "int"]]

TypeOf(name) == IF name = "ActivitySummary" THEN ActivitySummary ELSE UserProfile

\* the `json:"..."` tag of each field
JsonTag ==
    [Goals |-> "goals", Summary |-> "summary", ActiveMinutes |-> "activeMinutes",
     Steps |-> "steps", User |-> "user", FullName |-> "fullName", Age |-> "age"]

\* the zero value of a Go type
ZeroLeaf(t) == IF t = "int" THEN JNum(0) ELSE JStr("")
Zero(type) ==
    [f \in DOMAIN type |-> [g \in DOMAIN type[f] |-> ZeroLeaf(type[f][g])]]

\* encoding/json folds case when no field matches a key exactly
Fold(key) ==
    CASE key = "GOALS" -> "goals"
      [] key = "Steps" -> "steps"
      [] key = "fullName" -> "fullname"
      [] key = "activeMinutes" -> "activeminutes"
      [] OTHER -> key

\* the struct field a key names: the exact tag first, then the folded one
FieldsFor(fields, key) ==
    LET exact == {f \in fields : JsonTag[f] = key}
    IN  IF exact # {} THEN exact
        ELSE {f \in fields : Fold(JsonTag[f]) = Fold(key)}

\* decoding one value into a leaf field: null leaves it alone, a value of the
\* field's kind is stored, anything else is an UnmarshalTypeError and leaves it
LeafFits(t, v) == (t = "int" /\ v.k = "num") \/ (t = "string" /\ v.k = "str")

\* the one field of `fields` a key names, or "" when it names none
FieldFor(fields, key) ==
    Bind(FieldsFor(fields, key), LAMBDA fs :
        IF fs = {} THEN "" ELSE CHOOSE g \in fs : TRUE)

RECURSIVE DecodeLeaves(_, _, _, _)
\* the members of an inner object, in order, into the struct `cur` of type `t`;
\* the first failure is the one reported, and decoding goes on after it
DecodeLeaves(t, cur, m, i) ==
    IF i > Len(m) THEN [val |-> cur, err |-> ""]
    ELSE
      Bind(FieldFor(DOMAIN t, m[i][1]), LAMBDA f :
        IF f = "" \/ m[i][2].k = "null"
        THEN DecodeLeaves(t, cur, m, i + 1)
        ELSE IF LeafFits(t[f], m[i][2])
        THEN DecodeLeaves(t, [cur EXCEPT ![f] = m[i][2]], m, i + 1)
        ELSE [val |-> DecodeLeaves(t, cur, m, i + 1).val,
              err |-> "json: cannot unmarshal into field"])

RECURSIVE DecodeFields(_, _, _, _)
\* the members of the outer object, in order, into the record `cur`
DecodeFields(type, cur, m, i) ==
    IF i > Len(m) THEN [val |-> cur, err |-> ""]
    ELSE
      Bind(FieldFor(DOMAIN type, m[i][1]), LAMBDA f :
        IF f = "" \/ m[i][2].k = "null"
        THEN DecodeFields(type, cur, m, i + 1)
        ELSE IF m[i][2].k # "obj"
        THEN [val |-> DecodeFields(type, cur, m, i + 1).val,
              err |-> "json: cannot unmarshal into struct"]
        ELSE
          Bind(DecodeLeaves(type[f], cur[f], m[i][2].m, 1), LAMBDA inner :
            Bind(DecodeFields(type, [cur EXCEPT ![f] = inner.val], m, i + 1),
                 LAMBDA rest :
                [val |-> rest.val,
                 err |-> IF inner.err # "" THEN inner.err ELSE rest.err])))

\* json.NewDecoder(resp.Body).Decode(respStr): the body is first read up to the
\* end of one JSON value, and only a complete value is stored
Decode(body, type, cur) ==
    CASE body.syntax = "eof" -> [val |-> cur, err |-> Err("DecodeError", "EOF")]
      [] body.syntax = "truncated" ->
            [val |-> cur, err |-> Err("DecodeError", "unexpected EOF")]
      [] body.syntax = "invalid" ->
            [val |-> cur, err |-> Err("DecodeError", "json: invalid character")]
      [] OTHER ->
            IF body.v.k = "null" THEN [val |-> cur, err |-> NoErr]
            ELSE IF body.v.k # "obj"
            THEN [val |-> cur,
                  err |-> Err("DecodeError", "json: cannot unmarshal into struct")]
            ELSE Bind(DecodeFields(type, cur, body.v.m, 1), LAMBDA d :
                    [val |-> d.val,
                     err |-> IF d.err = "" THEN NoErr
                             ELSE Err("DecodeError", d.err)])

\* ----------------------------------------------------------------- request
\* *http.Request; nil is the nil pointer
NilRequest ==
    [nil |-> TRUE, Method |-> <<>>, URL |-> NoURL(""), Header |-> <<>>,
     Body |-> <<>>]

\* net/http validMethod: a non-empty run of token characters
ValidMethod(method) ==
    Len(method) > 0 /\ \A i \in 1..Len(method) : IsPlain(method[i])

\* http.NewRequest(method, url, body)
HttpNewRequest(method, url, body) ==
    Bind(Parse(url), LAMBDA u :
        IF ~ValidMethod(IF method = <<>> THEN <<"GET">> ELSE method)
        THEN [req |-> NilRequest, err |-> "net/http: invalid method"]
        ELSE IF u.err # "" THEN [req |-> NilRequest, err |-> u.err]
        ELSE [req |-> [nil |-> FALSE,
                       Method |-> IF method = <<>> THEN <<"GET">> ELSE method,
                       URL |-> u, Header |-> <<>>, Body |-> body],
              err |-> ""])

\* a faulty variant: the encoder's error is not looked at
BufferUnchecked(body) ==
    [err |-> "", text |-> IF body # Nil THEN Encode(body).text ELSE <<>>]

\* the buffer NewRequest hands on: empty for a nil body, else its JSON text
Buffer(body) ==
    IF body # Nil THEN Encode(body) ELSE [err |-> "", text |-> <<>>]

\* a faulty variant: the base and the path are joined with a slash
ResolveJoining(c, urlStr) == Parse(String(c.BaseUrl) \o <<"/">> \o urlStr)

\* url.Parse(c.BaseUrl.String() + urlStr): plain concatenation, then a parse
Resolve(c, urlStr) == Parse(String(c.BaseUrl) \o urlStr)

\* Client.NewRequest
NewRequest(c, method, urlStr, body) ==
    Bind(Parse(urlStr), LAMBDA first :
      IF first.err # ""
      THEN [req |-> NilRequest, err |-> Err("MalformedInput", first.err)]
      ELSE
        Bind(Resolve(c, urlStr), LAMBDA resolvedUrl :
          IF resolvedUrl.err # ""
          THEN [req |-> NilRequest,
                err |-> Err("MalformedInput", resolvedUrl.err)]
          ELSE
            Bind(Buffer(body), LAMBDA buf :
              IF buf.err # ""
              THEN [req |-> NilRequest, err |-> Err("MalformedInput", buf.err)]
              ELSE
                Bind(HttpNewRequest(method, String(resolvedUrl), buf.text),
                     LAMBDA made :
                  IF made.err # ""
                  THEN [req |-> NilRequest,
                        err |-> Err("MalformedInput", made.err)]
                  ELSE [req |-> [made.req EXCEPT !.Header =
                                    Append(@, <<"User-Agent", USER_AGENT>>)],
                        err |-> NoErr]))))

\* ---------------------------------------------------------------- executor
\* *http.Response; nil is the nil pointer
NilResponse ==
    [nil |-> TRUE, StatusCode |-> 0, Body |-> [syntax |-> "eof", v |-> JNull]]

\* a faulty variant: the success range ends one short
StatusFailedOffByOne(StatusCode) == StatusCode >= 299 \/ StatusCode < 200

\* the status check of Client.Do
StatusFailed(StatusCode) == StatusCode > 299 \/ StatusCode < 200

\* the response the send came back with
Response(server) ==
    [nil |-> FALSE, StatusCode |-> server.StatusCode, Body |-> server.Body]

\* a faulty variant: a failed send is tried once more
SendFailedRetrying(server, req, cur) ==
    [resp |-> NilResponse, err |-> Err("TransportError", server.err),
     dest |-> cur, log |-> <<"send", "send">>, sent |-> <<req, req>>]

\* a faulty variant: the deferred close is registered before the error check
SendFailedClosing(server, req, cur) ==
    [resp |-> NilResponse, err |-> Err("TransportError", server.err),
     dest |-> cur, log |-> <<"send", "close">>, sent |-> <<req>>]

\* Client.Do, when the send fails: the error is handed on, nothing is closed
SendFailed(server, req, cur) ==
    [resp |-> NilResponse, err |-> Err("TransportError", server.err),
     dest |-> cur, log |-> <<"send">>, sent |-> <<req>>]

\* a faulty variant: the raw response is handed back with the error
RequestFailedWithResponse(server, req, cur) ==
    [resp |-> Response(server),
     err |-> Err("RequestFailed", "http request failed"),
     dest |-> cur, log |-> <<"send", "status", "close">>, sent |-> <<req>>]

\* Client.Do, when the status is outside the success range
RequestFailed(server, req, cur) ==
    [resp |-> NilResponse, err |-> Err("RequestFailed", "http request failed"),
     dest |-> cur, log |-> <<"send", "status", "close">>, sent |-> <<req>>]

\* a faulty variant: the body is decoded into a copy of the destination
DecodedIntoCopy(server, req, respStr, cur) ==
    Bind(Decode(server.Body, TypeOf(respStr), cur), LAMBDA dec :
        [resp |-> Response(server), err |-> dec.err, dest |-> cur,
         log |-> <<"send", "status", "decode", "close">>, sent |-> <<req>>])

\* a faulty variant: the decode error is dropped
DecodedSwallowing(server, req, respStr, cur) ==
    Bind(Decode(server.Body, TypeOf(respStr), cur), LAMBDA dec :
        [resp |-> Response(server), err |-> NoErr, dest |-> dec.val,
         log |-> <<"send", "status", "decode", "close">>, sent |-> <<req>>])

\* Client.Do, when the status is a success and a destination was given
Decoded(server, req, respStr, cur) ==
    Bind(Decode(server.Body, TypeOf(respStr), cur), LAMBDA dec :
        [resp |-> Response(server), err |-> dec.err, dest |-> dec.val,
         log |-> <<"send", "status", "decode", "close">>, sent |-> <<req>>])

\* Client.Do.  `server` is what c.Client.Do(req) comes back with, `respStr` the
\* type the destination points to ("nil" for a nil destination) and `cur` the
\* destination's value at the call.  log lists the steps taken, in order; the
\* deferred resp.Body.Close() is the last of them.
Do(server, req, respStr, cur) ==
    IF ~server.ok THEN SendFailed(server, req, cur)
    ELSE IF StatusFailed(server.StatusCode) THEN RequestFailed(server, req, cur)
    ELSE IF respStr # "nil" THEN Decoded(server, req, respStr, cur)
    ELSE [resp |-> Response(server), err |-> NoErr, dest |-> cur,
          log |-> <<"send", "status", "close">>, sent |-> <<req>>]

\* --------------------------------------------------------------- accessors
\* fmt.Sprintf("/user/-/activities/date/%s.json", dayString)
ActivityPath(dayString) ==
    <<"/", "user", "/", "-", "/", "activities", "/", "date", "/">>
        \o dayString \o <<".json">>

ProfilePath == <<"/", "user", "/", "-", "/", "profile.json">>

\* Client.ActivitySummaryForDay
ActivitySummaryForDay(c, dayString, server) ==
    Bind(NewRequest(c, <<"GET">>, ActivityPath(dayString), Nil), LAMBDA built :
      IF built.err # NoErr
      THEN [record |-> Zero(ActivitySummary), err |-> built.err,
            req |-> built.req, resp |-> NilResponse, log |-> <<>>,
            sent |-> <<>>]
      ELSE
        Bind(Do(server, built.req, "ActivitySummary", Zero(ActivitySummary)),
             LAMBDA done :
          IF done.err # NoErr
          THEN [record |-> done.dest, err |-> done.err, req |-> built.req,
                resp |-> done.resp, log |-> done.log, sent |-> done.sent]
          ELSE [record |-> done.dest, err |-> NoErr, req |-> built.req,
                resp |-> done.resp, log |-> Append(done.log, "close"),
                sent |-> done.sent]))

\* Client.UserProfile (the method; UserProfile above is the record type)
UserProfileCall(c, server) ==
    Bind(NewRequest(c, <<"GET">>, ProfilePath, Nil), LAMBDA built :
      IF built.err # NoErr
      THEN [record |-> Zero(UserProfile), err |-> built.err,
            req |-> built.req, resp |-> NilResponse, log |-> <<>>,
            sent |-> <<>>]
      ELSE
        Bind(Do(server, built.req, "UserProfile", Zero(UserProfile)),
             LAMBDA done :
          IF done.err # NoErr
          THEN [record |-> done.dest, err |-> done.err, req |-> built.req,
                resp |-> done.resp, log |-> done.log, sent |-> done.sent]
          ELSE [record |-> done.dest, err |-> NoErr, req |-> built.req,
                resp |-> done.resp, log |-> Append(done.log, "close"),
                sent |-> done.sent]))

\* ------------------------------------------------------------------ inputs
\* ConfigSource.NewClient binds BaseUrl to baseURL; a caller may also build a
\* Client around another base address (here one that ends in a slash)
Clients == {[BaseUrl |-> baseURL], [BaseUrl |-> Parse(<<"http://stub", "/">>)]}

PathAlphabet == {"/", "x", " ", "%", "%2F", "?", "#"}
Paths == SeqsUpTo(PathAlphabet, MaxPathLen)

DayAlphabet == {"2013-06-27", "/", " ", "%", "#", "?"}
Days == SeqsUpTo(DayAlphabet, MaxDayLen)

Methods == {<<"GET">>, <<>>, <<"GET", " ">>}
Payloads == {Nil, JNum(1), GoChan}

Text(v) == [syntax |-> "ok", v |-> v]
Bodies ==
    {[syntax |-> "eof", v |-> JNull],
     [syntax |-> "truncated", v |-> JNull],
     [syntax |-> "invalid", v |-> JNull],
     Text(JNull), Text(JArr), Text(JNum(5)), Text(JObj(<<>>)),
     Text(JObj(<< <<"goals", JObj(<< <<"steps", JNum(10000)>> >>)>>,
                  <<"summary", JObj(<< <<"steps", JNum(8000)>> >>)>> >>)),
     Text(JObj(<< <<"goals", JObj(<< <<"steps", JNum(10000)>> >>)>>,
                  <<"summary", JObj(<< <<"steps", JStr("x")>> >>)>> >>)),
     Text(JObj(<< <<"goals", JStr("x")>>,
                  <<"summary", JObj(<< <<"steps", JNum(8000)>> >>)>> >>)),
     Text(JObj(<< <<"GOALS", JObj(<< <<"Steps", JNum(7)>>,
                                     <<"activeMinutes", JNull>> >>)>> >>)),
     Text(JObj(<< <<"user", JObj(<< <<"fullName", JStr("Jane Doe")>> >>)>> >>)),
     Text(JObj(<< <<"user", JObj(<< <<"fullName", JNum(5)>>,
                                    <<"age", JNum(30)>> >>)>> >>)),
     Text(JObj(<< <<"other", JNum(1)>> >>))}

StatusCodes == {199, 200, 299, 300, 404}

\* what the authenticated HTTP client answers a send with
Servers ==
    {[ok |-> FALSE, err |-> "dial tcp: i/o timeout", StatusCode |-> 0,
      Body |-> [syntax |-> "eof", v |-> JNull]]}
    \cup {[ok |-> TRUE, err |-> "", StatusCode |-> st, Body |-> b] :
            st \in StatusCodes, b \in Bodies}

\* requests a caller hands to Do
Requests ==
    {NewRequest([BaseUrl |-> baseURL], <<"GET">>, ProfilePath, Nil).req,
     NewRequest([BaseUrl |-> baseURL], <<"POST">>, <<"/", "x">>, JNum(1)).req}

DestTypes == {"nil", "ActivitySummary", "UserProfile"}

\* destinations a caller hands to Do: fresh, or holding earlier values
Dests(respStr) ==
    IF respStr = "UserProfile"
    THEN {Zero(UserProfile),
          [User |-> [FullName |-> JStr("old"), Age |-> JNum(9)]]}
    ELSE {Zero(ActivitySummary),
          [Goals |-> [ActiveMinutes |-> JNum(3), Steps |-> JNum(4)],
           Summary |-> [Steps |-> JNum(5)]]}

\* ------------------------------------------------------------------- state
VARIABLES
    op,        \* the call made last
    client,    \* its receiver
    method, urlStr, body,   \* the arguments of NewRequest
    day, \* the argument of ActivitySummaryForDay
    server,    \* what the network answered
    respStr,   \* the destination type handed to Do ("nil" for none)
    cur,       \* the destination before the call
    req,       \* the request built (NewRequest, accessors) or handed in (Do)
    resp,      \* the response Do returned
    err,       \* the error returned
    dest,      \* the destination after the call
    log,       \* the steps the call took: send, status, decode, close
    sent       \* the requests put on the network

vars == <<op, client, method, urlStr, body, day, server, respStr, cur, req,
          resp, err, dest, log, sent>>

NoServer ==
    [ok |-> FALSE, err |-> "", StatusCode |-> 0,
     Body |-> [syntax |-> "eof", v |-> JNull]]

Init ==
    /\ op = "none"
    /\ client = [BaseUrl |-> baseURL]
    /\ method = <<>>
    /\ urlStr = <<>>
    /\ body = Nil
    /\ day = <<>>
    /\ server = NoServer
    /\ respStr = "nil"
    /\ cur = Zero(ActivitySummary)
    /\ req = NilRequest
    /\ resp = NilResponse
    /\ err = NoErr
    /\ dest = Zero(ActivitySummary)
    /\ log = <<>>
    /\ sent = <<>>

CallNewRequest ==
    /\ op = "none"
    /\ \E c \in Clients, m \in Methods, u \in Paths, b \in Payloads :
        \E r \in {NewRequest(c, m, u, b)} :
            /\ op' = "NewRequest"
            /\ client' = c
            /\ method' = m
            /\ urlStr' = u
            /\ body' = b
            /\ day' = <<>>
            /\ server' = NoServer
            /\ respStr' = "nil"
            /\ cur' = Zero(ActivitySummary)
            /\ req' = r.req
            /\ resp' = NilResponse
            /\ err' = r.err
            /\ dest' = Zero(ActivitySummary)
            /\ log' = <<>>
            /\ sent' = <<>>

CallDo ==
    /\ op = "none"
    /\ \E s \in Servers, q \in Requests, t \in DestTypes :
      \E d \in Dests(t) :
        \E r \in {Do(s, q, t, d)} :
            /\ op' = "Do"
            /\ client' = [BaseUrl |-> baseURL]
            /\ method' = <<>>
            /\ urlStr' = <<>>
            /\ body' = Nil
            /\ day' = <<>>
            /\ server' = s
            /\ respStr' = t
            /\ cur' = d
            /\ req' = q
            /\ resp' = r.resp
            /\ err' = r.err
            /\ dest' = r.dest
            /\ log' = r.log
            /\ sent' = r.sent

CallActivitySummaryForDay ==
    /\ op = "none"
    /\ \E c \in Clients, dy \in Days, s \in Servers :
        \E r \in {ActivitySummaryForDay(c, dy, s)} :
            /\ op' = "ActivitySummaryForDay"
            /\ client' = c
            /\ method' = <<"GET">>
            /\ urlStr' = ActivityPath(dy)
            /\ body' = Nil
            /\ day' = dy
            /\ server' = s
            /\ respStr' = "ActivitySummary"
            /\ cur' = Zero(ActivitySummary)
            /\ req' = r.req
            /\ resp' = r.resp
            /\ err' = r.err
            /\ dest' = r.record
            /\ log' = r.log
            /\ sent' = r.sent

CallUserProfile ==
    /\ op = "none"
    /\ \E c \in Clients, s \in Servers :
        \E r \in {UserProfileCall(c, s)} :
            /\ op' = "UserProfile"
            /\ client' = c
            /\ method' = <<"GET">>
            /\ urlStr' = ProfilePath
            /\ body' = Nil
            /\ day' = <<>>
            /\ server' = s
            /\ respStr' = "UserProfile"
            /\ cur' = Zero(UserProfile)
            /\ req' = r.req
            /\ resp' = r.resp
            /\ err' = r.err
            /\ dest' = r.record
            /\ log' = r.log
            /\ sent' = r.sent

\* the caller is done with the results: the client keeps nothing of a call
Return ==
    /\ op # "none"
    /\ op' = "none"
    /\ client' = [BaseUrl |-> baseURL]
    /\ method' = <<>>
    /\ urlStr' = <<>>
    /\ body' = Nil
    /\ day' = <<>>
    /\ server' = NoServer
    /\ respStr' = "nil"
    /\ cur' = Zero(ActivitySummary)
    /\ req' = NilRequest
    /\ resp' = NilResponse
    /\ err' = NoErr
    /\ dest' = Zero(ActivitySummary)
    /\ log' = <<>>
    /\ sent' = <<>>

Next ==
    \/ CallNewRequest
    \/ CallDo
    \/ CallActivitySummaryForDay
    \/ CallUserProfile
    \/ Return

Spec == Init /\ [][Next]_vars

\* ------------------------------------------------------------------ claims
IsAccessor == op \in {"ActivitySummaryForDay", "UserProfile"}

\* the call reached the network: Do ran
Executed == op = "Do" \/ (IsAccessor /\ ~req.nil)

\* the call received a response
Responded == Executed /\ server.ok

SuccessStatus == server.StatusCode >= 200 /\ server.StatusCode <= 299

Closes == Count(log, "close")

Address(r) == String(r.URL)

FixedHeader == << <<"User-Agent", "go-fitbit-api:v0.0.1">> >>

ApiBase == <<"https://api.fitbit.com", "/", "1">>

\* C1: every call that receives a response closes the response body exactly
\* once by the time it returns, on every path.
C1_BodyClosedExactlyOnce == Responded => Closes = 1

\* C2: for a status outside [200, 299] Do returns RequestFailed, never decodes
\* the body and leaves the destination as it was; 200 and 299 are successes,
\* 199 and 300 failures.
C2_NonSuccessStatusFails ==
    Responded =>
        /\ ~SuccessStatus =>
              /\ err.class = "RequestFailed"
              /\ ~Contains(log, "decode")
              /\ dest = cur
        /\ server.StatusCode \in {200, 299} => err.class # "RequestFailed"
        /\ server.StatusCode \in {199, 300} => err.class = "RequestFailed"

C2_Witness ==
    /\ op = "Do"
    /\ server.ok
    /\ server.StatusCode = 300
    /\ server.Body.syntax = "ok"
    /\ server.Body.v.k = "obj"
    /\ respStr = "UserProfile"
    /\ cur # Zero(UserProfile)
    /\ dest = cur
    /\ err.class = "RequestFailed"

\* C3: whenever an accessor returns an error, the record returned with it is
\* the zero value and the error is the one the builder or the executor made.
C3_ErrorComesWithZeroRecord ==
    (IsAccessor /\ err # NoErr) =>
        /\ dest = Zero(TypeOf(respStr))
        /\ err = IF req.nil
                 THEN NewRequest(client, <<"GET">>, urlStr, Nil).err
                 ELSE Do(server, req, respStr, Zero(TypeOf(respStr))).err

\* C4: a call sends at most once; a call that fails after the send does not
\* send again, and a successful call sends exactly once.
C4_AtMostOneSend ==
    (op = "Do" \/ IsAccessor) =>
        /\ Len(sent) <= 1
        /\ Count(log, "send") = Len(sent)
        /\ err = NoErr => Len(sent) = 1
        /\ err.class \in {"TransportError", "RequestFailed", "DecodeError"}
              => Len(sent) = 1

C4_Witness ==
    /\ op = "ActivitySummaryForDay"
    /\ err.class = "TransportError"
    /\ Len(sent) = 1
    /\ log = <<"send">>

\* the text opens with a percent sign that no two hex digits follow
StrayPercentFirst(s) ==
    /\ s # <<>>
    /\ s[1] = "%"
    /\ (Len(s) >= 2 => s[2] # "2013-06-27")

\* C5: a failing NewRequest returns a nil request and a MalformedInput error
\* and nothing is sent; an accessor whose builder fails returns before Do.
C5_BuilderFailureSendsNothing ==
    /\ (op = "NewRequest" /\ err # NoErr) =>
          /\ req.nil
          /\ err.class = "MalformedInput"
          /\ sent = <<>>
    /\ (op = "NewRequest" /\ err = NoErr) => ~req.nil
    /\ (op = "NewRequest" /\ (body = GoChan \/ Contains(method, " ")
                              \/ StrayPercentFirst(urlStr)))
          => err.class = "MalformedInput"
    /\ (IsAccessor /\ (req.nil \/ err.class = "MalformedInput")) =>
          /\ req.nil
          /\ err.class = "MalformedInput"
          /\ sent = <<>>
          /\ log = <<>>
          /\ resp.nil
    /\ (op = "ActivitySummaryForDay" /\ StrayPercentFirst(day))
          => (err.class = "MalformedInput" /\ sent = <<>>)

C5_Witness ==
    /\ op = "ActivitySummaryForDay"
    /\ day = <<"%">>
    /\ server.ok
    /\ server.StatusCode = 200
    /\ err.class = "MalformedInput"
    /\ req.nil
    /\ sent = <<>>

\* a body is well formed for a type when it is a JSON object whose members
\* all name fields of the type and hold values of the fields' kinds
WellFormedFor(b, type) ==
    /\ b.syntax = "ok"
    /\ b.v.k = "obj"
    /\ \A i \in 1..Len(b.v.m) :
          LET f == FieldFor(DOMAIN type, b.v.m[i][1])
              o == b.v.m[i][2]
          IN  /\ f # ""
              /\ o.k = "obj"
              /\ \A j \in 1..Len(o.m) :
                    LET g == FieldFor(DOMAIN type[f], o.m[j][1])
                    IN  g # "" /\ (o.m[j][2].k = "null"
                                   \/ LeafFits(type[f][g], o.m[j][2]))

\* the values a body gives for field g of field f
GivenAt(b, type, f, g) ==
    UNION {{b.v.m[i][2].m[j][2] :
              j \in {y \in 1..Len(b.v.m[i][2].m) :
                       /\ FieldFor(DOMAIN type[f], b.v.m[i][2].m[y][1]) = g
                       /\ b.v.m[i][2].m[y][2].k # "null"}} :
           i \in {x \in 1..Len(b.v.m) :
                    FieldFor(DOMAIN type, b.v.m[x][1]) = f}}

\* d holds the body b, decoded over the earlier value c
HoldsBody(b, type, d, c) ==
    \A f \in DOMAIN type : \A g \in DOMAIN type[f] :
        IF GivenAt(b, type, f, g) # {}
        THEN d[f][g] \in GivenAt(b, type, f, g)
        ELSE d[f][g] = c[f][g]

\* C6: a success status with a well-formed body matching the destination
\* gives no error and a destination holding the decoded body; the accessors
\* return that record with a nil error.
C6_SuccessPopulatesDestination ==
    /\ (Responded /\ SuccessStatus /\ respStr # "nil"
        /\ WellFormedFor(server.Body, TypeOf(respStr))) =>
          /\ err = NoErr
          /\ HoldsBody(server.Body, TypeOf(respStr), dest, cur)
    /\ (op = "ActivitySummaryForDay" /\ day = <<"2013-06-27">> /\ server.ok
        /\ server.StatusCode = 200
        /\ server.Body = Text(JObj(<<
              <<"goals", JObj(<< <<"steps", JNum(10000)>> >>)>>,
              <<"summary", JObj(<< <<"steps", JNum(8000)>> >>)>> >>))) =>
          /\ err = NoErr
          /\ dest.Goals.Steps = JNum(10000)
          /\ dest.Summary.Steps = JNum(8000)
    /\ (op = "UserProfile" /\ server.ok /\ server.StatusCode = 200
        /\ server.Body = Text(JObj(<<
              <<"user", JObj(<< <<"fullName", JStr("Jane Doe")>> >>)>> >>))) =>
          /\ err = NoErr
          /\ dest.User.FullName = JStr("Jane Doe")

C6_Witness ==
    /\ op = "ActivitySummaryForDay"
    /\ day = <<"2013-06-27">>
    /\ server.ok
    /\ server.StatusCode = 200
    /\ err = NoErr
    /\ dest.Goals.Steps = JNum(10000)
    /\ dest.Summary.Steps = JNum(8000)

\* the request was built from a nil payload
BuiltWithoutPayload ==
    (op = "NewRequest" \/ IsAccessor) /\ body = Nil /\ ~req.nil

\* the base URL string followed by the path, as one text
Concatenation == Canon(String(client.BaseUrl) \o urlStr)

AccessorAddressing ==
    /\ (IsAccessor /\ sent # <<>>) =>
          /\ sent = <<req>>
          /\ sent[1].Method = <<"GET">>
    /\ (op = "UserProfile" /\ client.BaseUrl = Parse(ApiBase) /\ sent # <<>>) =>
          Address(sent[1]) =
              ApiBase \o <<"/", "user", "/", "-", "/", "profile.json">>
    /\ (op = "ActivitySummaryForDay" /\ client.BaseUrl = Parse(ApiBase)
        /\ day = <<"2013-06-27">> /\ sent # <<>>) =>
          Address(sent[1]) =
              ApiBase \o <<"/", "user", "/", "-", "/", "activities", "/",
                           "date", "/", "2013-06-27", ".json">>

\* C7: for a valid (method, path) with a nil payload the request's address is
\* exactly the base URL string followed by the path, its body is empty and it
\* carries the fixed User-Agent header; the accessors address their paths
\* under the base with method GET.
C7_AddressIsConcatenation ==
    /\ BuiltWithoutPayload =>
          /\ Address(req) = Concatenation
          /\ req.Body = <<>>
          /\ req.Header = FixedHeader
    /\ AccessorAddressing

\* the text w without a "#" that nothing follows
DropEmptyFragment(w) ==
    IF IndexOf(w, "#") # 0 /\ IndexOf(w, "#") = Len(w)
    THEN SubSeq(w, 1, Len(w) - 1) ELSE w

\* the text w with a space outside the query written %20 and a "#" after the
\* first one written %23; every other token, each slash among them, stays
Escaping(w) ==
    LET h == IndexOf(w, "#")
        frag == IF h # 0 THEN h ELSE Len(w) + 1
        q == IndexOf(SubSeq(w, 1, frag - 1), "?")
        inQuery(i) == q # 0 /\ q < i /\ i < frag
    IN  [i \in 1..Len(w) |->
            IF w[i] = " " /\ ~inQuery(i) THEN "%20"
            ELSE IF w[i] = "#" /\ i > frag THEN "%23"
            ELSE w[i]]

\* C7 (amended): the address is exactly the base URL string followed by the
\* path when the path holds no space and no "#".  In every case it is that
\* text once percent escapes are decoded, less a "#" that ends it; and when
\* the path holds no percent escape it is that text slash for slash, with a
\* space outside the query written %20 and a "#" inside the fragment %23.
\* The body is empty, the header fixed, and the accessors send GET requests
\* to their paths under the base.
C7_AddressIsSerializedConcatenation ==
    /\ BuiltWithoutPayload =>
          /\ (~Contains(urlStr, " ") /\ ~Contains(urlStr, "#"))
                => Address(req) = Concatenation
          /\ Unescape(Address(req)) = Unescape(DropEmptyFragment(Concatenation))
          /\ (\A i \in 1..Len(Concatenation) :
                Concatenation[i] \notin Escapes) =>
                /\ Address(req) = Escaping(DropEmptyFragment(Concatenation))
                /\ \A i \in 1..Len(Address(req)) :
                      (Address(req)[i] = "/") <=> (Concatenation[i] = "/")
          /\ req.Body = <<>>
          /\ req.Header = FixedHeader
    /\ AccessorAddressing

C7_Witness ==
    /\ op = "NewRequest"
    /\ body = Nil
    /\ ~req.nil
    /\ client.BaseUrl = Parse(<<"http://stub", "/">>)
    /\ urlStr = <<"/", "x", " ">>
    /\ Address(req) = <<"http://stub", "/", "/", "x", "%20">>

\* C8: Do decodes only when a destination was given and the status is a
\* success; with no destination and a success it returns no error without
\* reading the body; a failed decode is returned as a DecodeError.
C8_DecodeOnlyOnSuccessWithDestination ==
    Executed =>
        /\ Contains(log, "decode")
              <=> (respStr # "nil" /\ server.ok /\ SuccessStatus)
        /\ (respStr = "nil" /\ server.ok /\ SuccessStatus) =>
              (err = NoErr /\ dest = cur)
        /\ (Contains(log, "decode")
            /\ (server.Body.syntax # "ok" \/ server.Body.v.k \in {"arr", "num"}))
              => err.class = "DecodeError"
        /\ err.class = "DecodeError" => Contains(log, "decode")

C8_Witness ==
    /\ op = "Do"
    /\ respStr = "ActivitySummary"
    /\ server.ok
    /\ server.StatusCode = 299
    /\ server.Body.syntax = "truncated"
    /\ err.class = "DecodeError"
    /\ Contains(log, "decode")

\* the position of a step in the log, 0 when it was not taken
Step(name) == IndexOf(log, name)

\* C9: a failed send gives a TransportError with a nil response, no status
\* check, no decode, no close and an untouched destination; the four error
\* classes come in a fixed order, so a failing call reports exactly one.
C9_TransportErrorAndErrorOrder ==
    /\ (Executed /\ ~server.ok) =>
          /\ err = Err("TransportError", server.err)
          /\ resp.nil
          /\ log = <<"send">>
          /\ dest = cur
    /\ (op # "none" /\ err # NoErr) =>
          err.class \in {"MalformedInput", "TransportError", "RequestFailed",
                         "DecodeError"}
    /\ err.class = "MalformedInput" => log = <<>>
    /\ err.class = "TransportError" =>
          (Step("send") = 1 /\ Step("status") = 0 /\ Step("decode") = 0)
    /\ err.class = "RequestFailed" =>
          (Step("send") = 1 /\ Step("status") = 2 /\ Step("decode") = 0)
    /\ err.class = "DecodeError" =>
          (Step("send") = 1 /\ Step("status") = 2 /\ Step("decode") = 3)
    /\ (IsAccessor /\ req.nil) => err.class = "MalformedInput"
    /\ (Responded /\ ~SuccessStatus) => err.class = "RequestFailed"

C9_Witness ==
    /\ op = "Do"
    /\ ~server.ok
    /\ respStr = "ActivitySummary"
    /\ cur # Zero(ActivitySummary)
    /\ dest = cur
    /\ err.class = "TransportError"
    /\ resp.nil

\* C10: Do returns a response exactly when the send succeeded with a success
\* status; a decode failure comes with a response and an error; a response
\* that is returned has its body closed.
C10_ResponseOnlyOnSuccessStatus ==
    op = "Do" =>
        /\ ~resp.nil <=> (server.ok /\ SuccessStatus)
        /\ err.class = "DecodeError" => (~resp.nil /\ err # NoErr)
        /\ ~resp.nil =>
              /\ resp.StatusCode = server.StatusCode
              /\ Closes >= 1
              /\ log[Len(log)] = "close"

C10_Witness ==
    /\ op = "Do"
    /\ err.class = "DecodeError"
    /\ ~resp.nil
    /\ resp.StatusCode = 200
    /\ log[Len(log)] = "close"

====
